---- MODULE Spec2Model ----
(***************************************************************************)
(* Model of py-ratelimit (src/ratelimit/ratelimit.py): a callable wrapper  *)
(* that keeps, per session key, the list of the times of the recent calls  *)
(* and raises RateLimitException when the list is full.                    *)
(*                                                                         *)
(* Python values are modelled as strings; the string "None" stands for the *)
(* Python value None.  Times are integers (clock ticks); the age test of   *)
(* _update_calls is the integer comparison now - t < per_seconds.          *)
(***************************************************************************)
EXTENDS Integers, Sequences, FiniteSets, TLC

\* ---------------------------------------------------------------- bounds
MaxTime == 2        \* the clock is advanced up to this tick
MaxInvocations == 3 \* no call is admitted beyond this number of admissions
MaxW == 2           \* per_seconds is drawn from 1 .. MaxW

\* ---------------------------------------------------------------- values
None == "None"
Vals == {None, "a"}                      \* argument values (session keys)
Signatures == {<<"name">>, <<"x", "name">>}   \* parameter lists of the wrapped callable
SessionNames == {None, "name", "chuj"}   \* the session_arg given to the constructor
Limits == {1, 2}                         \* the max_calls given to the constructor
ArgLists == {<<>>} \cup {<<v>> : v \in Vals} \cup {<<x, v>> : x \in Vals, v \in Vals}
KwNames == {"name"}
KwargsSet == UNION {[S -> Vals] : S \in SUBSET KwNames}

\* ------------------------------------------------------- time units
\* the module constants of lines 6-12, in seconds
SECOND == 1
MINUTE == 60 * SECOND
HOUR == 60 * MINUTE
DAY == 24 * HOUR
WEEK == 7 * DAY

\* a month of 31 days
MonthOf31 == 31 * DAY

MONTH == 30 * DAY
YEAR == 365 * DAY

VARIABLES
    phase,         \* "new", "ready" (constructed) or "failed" (__init__ raised ValueError)
    f_params,      \* list(inspect.signature(f).parameters.keys())
    session_name,  \* the session_arg parameter of __init__ (None when not given)
    max_calls,     \* self.max_calls
    per_seconds,   \* self.per_seconds
    session_arg,   \* self.session_arg: None or the pair (index, name)
    calls,         \* self._calls: session key -> list of call times
    clock,         \* what datetime.now() returns
    invocations,   \* number of times the wrapped callable f was invoked
    admits,        \* history: session key -> times of all admitted calls, in order
    last,          \* history: the last call's key, how it was found, time, list before, outcome
    threads,       \* interleaved callers: thread -> position in __call__, session, time read,
                   \* filtered list, list object held
    raced          \* history: two interleaved callers were inside lines 86-80 for one session

vars == <<phase, f_params, session_name, max_calls, per_seconds, session_arg,
          calls, clock, invocations, admits, last, threads, raced>>
config == <<f_params, session_name, max_calls, per_seconds>>

\* self.session_arg = None (line 47)
NoSessionArg == [present |-> FALSE, index |-> 0, name |-> None]

NoCall == [outcome |-> "none", key |-> None, via |-> "unbound", now |-> 0, pre |-> <<>>]

\* the callers of the interleaved specification
Threads == {"t1", "t2"}
Idle == [pc |-> "idle", key |-> None, now |-> 0, tmp |-> <<>>, ref |-> "none", list |-> <<>>]

\* list.index(x): 0-based position of the first occurrence
IndexOf(seq, x) == (CHOOSE i \in 1..Len(seq) :
                       /\ seq[i] = x
                       /\ \A j \in 1..(i-1) : seq[j] # x) - 1

\* a membership test that looks at the first parameter only
InSignatureFirst(name, params) == Len(params) > 0 /\ params[1] = name

\* session_arg not in signature.parameters is false (line 52)
InSignature(name, params) == \E i \in 1..Len(params) : params[i] = name

\* the binding computed by __init__ (lines 47-57); only used when it does not raise
Binding(name, params) ==
    IF name = None THEN NoSessionArg
    ELSE [present |-> TRUE, index |-> IndexOf(params, name), name |-> name]

\* a key extraction that forgets the test of line 65
SessionOfFirstArg(sarg, args, kwargs) ==
    IF sarg.name \in DOMAIN kwargs THEN kwargs[sarg.name]
    ELSE IF Len(args) > sarg.index THEN args[sarg.index + 1]
    ELSE None

\* a key extraction that looks at the positional arguments first
SessionOfPositionalFirst(sarg, args, kwargs) ==
    IF ~sarg.present THEN None
    ELSE IF Len(args) > sarg.index THEN args[sarg.index + 1]
    ELSE IF sarg.name \in DOMAIN kwargs THEN kwargs[sarg.name]
    ELSE None

\* a key extraction that falls back on the first positional argument
SessionOfFallback(sarg, args, kwargs) ==
    IF ~sarg.present THEN None
    ELSE IF sarg.name \in DOMAIN kwargs THEN kwargs[sarg.name]
    ELSE IF Len(args) > sarg.index THEN args[sarg.index + 1]
    ELSE IF Len(args) > 0 THEN args[1]
    ELSE None

\* a key extraction with a key of its own for a missing argument
SessionOfMissing(sarg, args, kwargs) ==
    IF ~sarg.present THEN None
    ELSE IF sarg.name \in DOMAIN kwargs THEN kwargs[sarg.name]
    ELSE IF Len(args) > sarg.index THEN args[sarg.index + 1]
    ELSE "missing"

\* lines 63-70 of __call__: the session key of a call
SessionOf(sarg, args, kwargs) ==
    IF ~sarg.present THEN None
    ELSE IF sarg.name \in DOMAIN kwargs THEN kwargs[sarg.name]
    ELSE IF Len(args) > sarg.index THEN args[sarg.index + 1]
    ELSE None

\* the branch of lines 65-70 that yields the session key
Via(sarg, args, kwargs) ==
    IF ~sarg.present THEN "unbound"
    ELSE IF sarg.name \in DOMAIN kwargs THEN "kw"
    ELSE IF Len(args) > sarg.index THEN "pos"
    ELSE "omitted"

\* an age test that keeps a time of age per_seconds (<= for <)
FreshInclusive(now, t, w) == now - t <= w

\* an age test that expires a time one tick early
FreshShort(now, t, w) == now - t < w - 1

\* (now - t).total_seconds() < self.per_seconds (line 91)
Fresh(now, t, w) == now - t < w

\* a prune that is forgotten
Unpruned(list, now, w) == list

\* a prune that builds the kept times back to front
PrunedReversed(list, now, w) ==
    LET kept == SelectSeq(list, LAMBDA t : Fresh(now, t, w))
    IN  [i \in 1..Len(kept) |-> kept[Len(kept) + 1 - i]]

\* a prune that drops the oldest time only, when it has expired
PrunedOldest(list, now, w) ==
    IF list # <<>> /\ ~Fresh(now, list[1], w) THEN Tail(list) ELSE list

\* the list comprehension of line 91
Pruned(list, now, w) == SelectSeq(list, LAMBDA t : Fresh(now, t, w))

\* the list of a key, [] when the key is absent
ListOf(table, k) == IF k \in DOMAIN table THEN table[k] ELSE <<>>

\* an update that rebuilds the table with the entry of the session only
UpdateCallsOnly(table, session, now, w) ==
    [k \in {session} |-> Pruned(ListOf(table, session), now, w)]

\* _update_calls (lines 83-91)
UpdateCalls(table, session, now, w) ==
    [k \in DOMAIN table \cup {session} |->
        IF k = session THEN Pruned(ListOf(table, session), now, w) ELSE table[k]]

\* a limiter that rejects only above the limit (> for ==)
FullAbove(list, n) == Len(list) > n

\* a limiter that rejects at the limit and above (>= for ==)
FullAtLeast(list, n) == Len(list) >= n

\* a limiter that rejects one call early
FullEarly(list, n) == Len(list) = n - 1

\* the test of line 74
Full(list, n) == Len(list) = n

Init ==
    /\ phase = "new"
    /\ f_params \in Signatures
    /\ session_name \in SessionNames
    /\ max_calls \in Limits
    /\ per_seconds \in 1..MaxW
    /\ session_arg = NoSessionArg
    /\ calls = <<>>
    /\ clock = 0
    /\ invocations = 0
    /\ admits = <<>>
    /\ last = NoCall
    /\ threads = [t \in Threads |-> Idle]
    /\ raced = FALSE

\* a construction that starts the table with the entry of None
ConstructEager ==
    /\ phase = "new"
    /\ IF session_name # None /\ ~InSignature(session_name, f_params)
       THEN /\ phase' = "failed"
            /\ UNCHANGED session_arg
       ELSE /\ phase' = "ready"
            /\ session_arg' = Binding(session_name, f_params)
    /\ calls' = [k \in {None} |-> <<>>]
    /\ UNCHANGED <<config, clock, invocations, admits, last, threads, raced>>

\* RateLimitedCallable.__init__ (lines 43-59), reached through ratelimit(...)(f)
Construct ==
    /\ phase = "new"
    /\ IF session_name # None /\ ~InSignature(session_name, f_params)
       THEN /\ phase' = "failed"
            /\ UNCHANGED session_arg
       ELSE /\ phase' = "ready"
            /\ session_arg' = Binding(session_name, f_params)
    /\ calls' = <<>>
    /\ UNCHANGED <<config, clock, invocations, admits, last, threads, raced>>

\* a __call__ that appends the time of the call before it tests the length
CallWithEager(args, kwargs, late, fails) ==
    LET session == SessionOf(session_arg, args, kwargs)
        d       == IF late THEN 1 ELSE 0
        table   == UpdateCalls(calls, session, clock, per_seconds)
        stamped == [table EXCEPT ![session] = Append(@, clock + d)]
        rec(o)  == [outcome |-> o, key |-> session,
                    via |-> Via(session_arg, args, kwargs), now |-> clock,
                    pre |-> ListOf(calls, session)]
    IN  /\ phase = "ready"
        /\ clock + d <= MaxTime
        /\ clock' = clock + d
        /\ calls' = stamped
        /\ IF Len(stamped[session]) > max_calls
           THEN /\ ~fails
                /\ last' = rec("rejected")
                /\ UNCHANGED <<invocations, admits>>
           ELSE /\ invocations < MaxInvocations
                /\ invocations' = invocations + 1
                /\ admits' = [k \in DOMAIN admits \cup {session} |->
                                 IF k = session
                                 THEN Append(ListOf(admits, session), clock + d)
                                 ELSE admits[k]]
                /\ last' = rec(IF fails THEN "raised" ELSE "returned")
        /\ UNCHANGED <<phase, config, session_arg, threads, raced>>

\* a __call__ that takes the time of the call back when f raises
CallWithRollback(args, kwargs, late, fails) ==
    LET session == SessionOf(session_arg, args, kwargs)
        d       == IF late THEN 1 ELSE 0
        table   == UpdateCalls(calls, session, clock, per_seconds)
        rec(o)  == [outcome |-> o, key |-> session,
                    via |-> Via(session_arg, args, kwargs), now |-> clock,
                    pre |-> ListOf(calls, session)]
    IN  /\ phase = "ready"
        /\ IF Full(table[session], max_calls)
           THEN /\ ~late /\ ~fails
                /\ calls' = table
                /\ last' = rec("rejected")
                /\ UNCHANGED <<clock, invocations, admits>>
           ELSE /\ invocations < MaxInvocations
                /\ clock + d <= MaxTime
                /\ clock' = clock + d
                /\ calls' = IF fails THEN table
                            ELSE [table EXCEPT ![session] = Append(@, clock + d)]
                /\ invocations' = invocations + 1
                /\ admits' = [k \in DOMAIN admits \cup {session} |->
                                 IF k = session
                                 THEN Append(ListOf(admits, session), clock + d)
                                 ELSE admits[k]]
                /\ last' = rec(IF fails THEN "raised" ELSE "returned")
        /\ UNCHANGED <<phase, config, session_arg, threads, raced>>

\* RateLimitedCallable.__call__ (lines 61-81) run by one caller, start to end.
\* late tells whether the clock ticks between datetime.now() of _update_calls
\* and datetime.now() of the append; fails tells whether f raises.
CallWith(args, kwargs, late, fails) ==
    LET session == SessionOf(session_arg, args, kwargs)
        now     == clock
        d       == IF late THEN 1 ELSE 0
        table   == UpdateCalls(calls, session, now, per_seconds)
    IN  /\ phase = "ready"
        /\ IF Full(table[session], max_calls)
           THEN /\ ~late /\ ~fails  \* neither line 80 nor f is reached
                /\ calls' = table
                /\ last' = [outcome |-> "rejected",
                            key |-> session,
                            via |-> Via(session_arg, args, kwargs), now |-> now,
                            pre |-> ListOf(calls, session)]
                /\ UNCHANGED <<clock, invocations, admits>>
           ELSE /\ invocations < MaxInvocations
                /\ clock + d <= MaxTime
                /\ clock' = clock + d
                /\ calls' = [table EXCEPT ![session] = Append(@, clock + d)]
                /\ invocations' = invocations + 1
                /\ admits' = [k \in DOMAIN admits \cup {session} |->
                                 IF k = session
                                 THEN Append(ListOf(admits, session), clock + d)
                                 ELSE admits[k]]
                /\ last' = [outcome |-> IF fails THEN "raised" ELSE "returned",
                            key |-> session,
                            via |-> Via(session_arg, args, kwargs), now |-> now,
                            pre |-> ListOf(calls, session)]
        /\ UNCHANGED <<phase, config, session_arg, threads, raced>>

Call == \E args \in ArgLists, kwargs \in KwargsSet, late \in BOOLEAN, fails \in BOOLEAN :
            CallWith(args, kwargs, late, fails)

\* time passes between calls (time is counted from the construction)
Tick ==
    /\ phase = "ready"
    /\ clock < MaxTime
    /\ clock' = clock + 1
    /\ UNCHANGED <<phase, config, session_arg, calls, invocations, admits, last,
                   threads, raced>>

Next == Construct \/ Call \/ Tick

Spec == Init /\ [][Next]_vars

\* --------------------------------------------- unvalidated max_calls
\* __init__ stores max_calls as given (line 44): limiters with max_calls
\* of 0 and below
Unvalidated == {-1, 0}

InitUnvalidated ==
    /\ phase = "new"
    /\ f_params \in Signatures
    /\ session_name \in SessionNames
    /\ max_calls \in Unvalidated
    /\ per_seconds \in 1..MaxW
    /\ session_arg = NoSessionArg
    /\ calls = <<>>
    /\ clock = 0
    /\ invocations = 0
    /\ admits = <<>>
    /\ last = NoCall
    /\ threads = [t \in Threads |-> Idle]
    /\ raced = FALSE

SpecUnvalidated == InitUnvalidated /\ [][Next]_vars

\* ------------------------------------------------ interleaved callers
\* __call__ run by the callers of Threads with no synchronization; a caller
\* may be preempted between any two accesses to self._calls and to the
\* clock: between the statements of lines 63-91, between the subscript of
\* line 91, the evaluation of its list comprehension and its assignment,
\* between the subscript, the datetime.now() and the append of line 80, and
\* between that append and the call of f at line 81.
Inside == {"check", "create", "load", "filter", "store", "test",
           "fetch", "read", "append"}

\* the caller t runs a statement of lines 86-80 while another caller of the
\* same session is between its own line 86 and line 80
Overlaps(t) ==
    \E u \in Threads \ {t} :
        threads[u].pc \in Inside /\ threads[u].key = threads[t].key

Frame == UNCHANGED <<phase, config, session_arg, last>>

\* the list object that the caller t holds: the one the table holds for its
\* session, or the one the table held when t evaluated the subscript
Target(t) ==
    IF threads[t].ref = "own" THEN threads[t].list ELSE calls[threads[t].key]

\* the caller t binds the key s to a new list object (lines 89 and 91): the
\* callers that hold the object bound before go on with that object
Rebind(t, s, pc) ==
    [u \in Threads |->
        IF u = t THEN [threads[t] EXCEPT !.pc = pc, !.tmp = <<>>]
        ELSE IF threads[u].ref = "table" /\ threads[u].key = s /\ s \in DOMAIN calls
             THEN [threads[u] EXCEPT !.ref = "own", !.list = calls[s]]
             ELSE threads[u]]

\* lines 63-86: the session key of the call and now = datetime.now()
Begin(t) ==
    /\ phase = "ready" /\ threads[t].pc = "idle"
    /\ \E args \in ArgLists, kwargs \in KwargsSet :
          LET s == SessionOf(session_arg, args, kwargs) IN
          /\ threads' = [threads EXCEPT ![t] =
                            [Idle EXCEPT !.pc = "check", !.key = s, !.now = clock]]
          /\ raced' = (raced \/ \E u \in Threads \ {t} :
                                   threads[u].pc \in Inside /\ threads[u].key = s)
    /\ UNCHANGED <<calls, clock, invocations, admits>>
    /\ Frame

\* line 88: if session not in self._calls
Check(t) ==
    /\ threads[t].pc = "check"
    /\ threads' = [threads EXCEPT ![t].pc =
                       IF threads[t].key \in DOMAIN calls THEN "load" ELSE "create"]
    /\ raced' = (raced \/ Overlaps(t))
    /\ UNCHANGED <<calls, clock, invocations, admits>>
    /\ Frame

\* line 89: self._calls[session] = [], whatever the entry holds by now
Create(t) ==
    LET s == threads[t].key IN
    /\ threads[t].pc = "create"
    /\ calls' = [k \in DOMAIN calls \cup {s} |-> IF k = s THEN <<>> ELSE calls[k]]
    /\ threads' = Rebind(t, s, "load")
    /\ raced' = (raced \/ Overlaps(t))
    /\ UNCHANGED <<clock, invocations, admits>>
    /\ Frame

\* line 91, the subscript self._calls[session]: the list object to iterate
Load(t) ==
    /\ threads[t].pc = "load"
    /\ threads' = [threads EXCEPT ![t].pc = "filter", ![t].ref = "table"]
    /\ raced' = (raced \/ Overlaps(t))
    /\ UNCHANGED <<calls, clock, invocations, admits>>
    /\ Frame

\* line 91, the list comprehension: the iterator ends on the object as it
\* is by then, with the times appended to it meanwhile
Filter(t) ==
    /\ threads[t].pc = "filter"
    /\ threads' = [threads EXCEPT ![t] =
                       [Idle EXCEPT !.pc = "store", !.key = threads[t].key,
                                    !.tmp = Pruned(Target(t), threads[t].now, per_seconds)]]
    /\ raced' = (raced \/ Overlaps(t))
    /\ UNCHANGED <<calls, clock, invocations, admits>>
    /\ Frame

\* line 91, assignment: the entry of the session is replaced
Store(t) ==
    LET s == threads[t].key IN
    /\ threads[t].pc = "store"
    /\ calls' = [calls EXCEPT ![s] = threads[t].tmp]
    /\ threads' = Rebind(t, s, "test")
    /\ raced' = (raced \/ Overlaps(t))
    /\ UNCHANGED <<clock, invocations, admits>>
    /\ Frame

\* lines 74-77: the length test; RateLimitException ends the call
Test(t) ==
    /\ threads[t].pc = "test"
    /\ threads' = [threads EXCEPT ![t] =
                       IF Full(calls[threads[t].key], max_calls)
                       THEN Idle
                       ELSE [@ EXCEPT !.pc = "fetch"]]
    /\ raced' = (raced \/ Overlaps(t))
    /\ UNCHANGED <<calls, clock, invocations, admits>>
    /\ Frame

\* the callers between the subscript of line 80 and the call of f
Pending == Cardinality({u \in Threads : threads[u].pc \in {"read", "append", "invoke"}})

\* line 80, the subscript self._calls[session]: the list object to append to
Fetch(t) ==
    /\ threads[t].pc = "fetch"
    /\ invocations + Pending < MaxInvocations
    /\ threads' = [threads EXCEPT ![t].pc = "read", ![t].ref = "table"]
    /\ raced' = (raced \/ Overlaps(t))
    /\ UNCHANGED <<calls, clock, invocations, admits>>
    /\ Frame

\* line 80, the argument datetime.now()
ReadNow(t) ==
    /\ threads[t].pc = "read"
    /\ threads' = [threads EXCEPT ![t].pc = "append", ![t].now = clock]
    /\ raced' = (raced \/ Overlaps(t))
    /\ UNCHANGED <<calls, clock, invocations, admits>>
    /\ Frame

\* line 80, the call of append: the time read goes to the object fetched
AppendNow(t) ==
    LET s == threads[t].key
        v == threads[t].now IN
    /\ threads[t].pc = "append"
    /\ calls' = IF threads[t].ref = "own" THEN calls
                ELSE [calls EXCEPT ![s] = Append(@, v)]
    /\ admits' = [k \in DOMAIN admits \cup {s} |->
                     IF k = s THEN Append(ListOf(admits, s), v) ELSE admits[k]]
    /\ threads' = [threads EXCEPT ![t] = [Idle EXCEPT !.pc = "invoke", !.key = s]]
    /\ raced' = (raced \/ Overlaps(t))
    /\ UNCHANGED <<clock, invocations>>
    /\ Frame

\* line 81: return self.f(*args, **kwargs)
Invoke(t) ==
    /\ threads[t].pc = "invoke"
    /\ invocations' = invocations + 1
    /\ threads' = [threads EXCEPT ![t] = Idle]
    /\ UNCHANGED <<calls, clock, admits, raced>>
    /\ Frame

Step(t) ==
    \/ Begin(t) \/ Check(t) \/ Create(t) \/ Load(t) \/ Filter(t) \/ Store(t)
    \/ Test(t) \/ Fetch(t) \/ ReadNow(t) \/ AppendNow(t) \/ Invoke(t)

NextRace == Construct \/ Tick \/ \E t \in Threads : Step(t)

\* the interleaved callers share a limiter without session parameter, so
\* that all their calls are calls of one session, whatever their arguments
InitRace ==
    /\ Init
    /\ session_name = None
    /\ f_params = <<"name">>

SpecRace == InitRace /\ [][NextRace]_vars

TypeOK ==
    /\ phase \in {"new", "ready", "failed"}
    /\ clock \in 0..MaxTime
    /\ DOMAIN calls \subseteq Vals

\* ------------------------------------------------------------ vocabulary
Called   == last.outcome # "none"
Rejected == last.outcome = "rejected"
Admitted == last.outcome \in {"returned", "raised"}

\* a step of __call__ (Tick changes the clock only, Construct starts in "new")
CallStep == phase = "ready" /\ <<calls, invocations, admits, last>>' # <<calls, invocations, admits, last>>

\* number of the entries of list that are younger than w at time now
Younger(list, now, w) == Cardinality({i \in 1..Len(list) : now - list[i] < w})

\* ---------------------------------------------------------------- C1
\* C1: a call of session s at time now is rejected if and only if the number
\* of times recorded for s that are less than per_seconds old equals
\* max_calls; every other call is admitted, appends exactly one time to the
\* list of s and invokes the wrapped callable exactly once.
C1_AdmissionRule ==
    /\ [](Called => (Rejected <=> Younger(last.pre, last.now, per_seconds) = max_calls))
    /\ [][CallStep =>
            LET s == last'.key IN
            IF last'.outcome = "rejected"
            THEN invocations' = invocations
            ELSE /\ Len(calls'[s]) = Younger(ListOf(calls, s), clock, per_seconds) + 1
                 /\ Len(admits'[s]) = Len(ListOf(admits, s)) + 1
                 /\ invocations' = invocations + 1]_vars

\* a rejection at max_calls = 2 after some time has passed since the first call
C1_Witness ==
    /\ Rejected /\ max_calls = 2 /\ Len(last.pre) = 2
    /\ last.now > last.pre[1]

\* ---------------------------------------------------------------- C2
Instants == 0..(MaxTime + MaxW)

\* number of the admitted calls of s whose time lies in (T - w, T]
InWindow(s, T, w) ==
    Cardinality({i \in 1..Len(admits[s]) : T - w < admits[s][i] /\ admits[s][i] <= T})

\* C2: for every session and every instant T, at most max_calls admitted
\* calls of the session have their time in the trailing window (T - W, T].
C2_SlidingWindowBound ==
    \A s \in DOMAIN admits : \A T \in Instants :
        InWindow(s, T, per_seconds) <= max_calls

\* a session that was admitted more often than max_calls, over several windows
C2_Witness ==
    \E s \in DOMAIN admits : max_calls = 2 /\ Len(admits[s]) = 3

\* ---------------------------------------------------------------- C3
\* C3: after every call no list is longer than max_calls, and every time
\* kept in the list of the called session was less than per_seconds old when
\* that call pruned the list.
C3_TableInvariant ==
    /\ \A s \in DOMAIN calls : Len(calls[s]) <= max_calls
    /\ Called =>
         /\ last.key \in DOMAIN calls
         /\ \A i \in 1..Len(calls[last.key]) :
                last.now - calls[last.key][i] < per_seconds

\* an admitted call whose prune removed one time and kept another
C3_Witness ==
    /\ Admitted /\ max_calls = 2
    /\ Len(last.pre) = 2 /\ Len(calls[last.key]) = 2

\* ---------------------------------------------------------------- C4
\* C4: a call that ends in RateLimitException does not invoke the wrapped
\* callable, adds no time to any list, and ends at once (the clock does not
\* move during the call, nothing is queued for later).
C4_RejectRecordsNothing ==
    [][CallStep /\ last'.outcome = "rejected" =>
          /\ invocations' = invocations
          /\ admits' = admits
          /\ clock' = clock
          /\ \A k \in DOMAIN calls' :
                 /\ Len(calls'[k]) <= Len(ListOf(calls, k))
                 /\ \A i \in 1..Len(calls'[k]) :
                        \E j \in 1..Len(ListOf(calls, k)) : calls[k][j] = calls'[k][i]]_vars

\* a rejected call at max_calls = 1, seen right after it
C4_Witness ==
    /\ Rejected /\ max_calls = 1 /\ last.now = clock
    /\ invocations = 1

\* ---------------------------------------------------------------- C5
\* C5: the first max_calls calls of a session are all admitted, and a call
\* made when exactly max_calls calls of the session were admitted and less
\* than per_seconds passed since the first of them is rejected.
C5_WindowAdmission ==
    [][CallStep =>
          LET a == ListOf(admits, last'.key) IN
          /\ Len(a) < max_calls => last'.outcome # "rejected"
          /\ (Len(a) = max_calls /\ clock - a[1] < per_seconds)
                => last'.outcome = "rejected"]_vars

\* the third call of a session, one tick after the first, rejected at 2 per 2 ticks
C5_Witness ==
    /\ Rejected /\ max_calls = 2 /\ per_seconds = 2
    /\ last.key \in DOMAIN admits /\ Len(admits[last.key]) = 2
    /\ last.now - admits[last.key][1] = 1

\* ---------------------------------------------------------------- C6
\* C6: a call of a session whose list holds max_calls times, made at least
\* per_seconds after the last of them, is admitted and leaves a list of
\* length exactly 1.
C6_WindowExpiry ==
    [][CallStep =>
          LET s == last'.key
              l == ListOf(calls, s) IN
          (Len(l) = max_calls /\ clock - l[Len(l)] >= per_seconds)
             => /\ last'.outcome # "rejected"
                /\ Len(calls'[s]) = 1]_vars

\* an admission after two expired times, the list is down to the new time
C6_Witness ==
    /\ Admitted /\ max_calls = 2 /\ Len(last.pre) = 2
    /\ last.now - last.pre[2] >= per_seconds
    /\ Len(calls[last.key]) = 1

\* ---------------------------------------------------------------- C7
\* C7: the prune of a call keeps exactly the times whose age is strictly
\* less than per_seconds; with max_calls = 1 a call made exactly per_seconds
\* after the recorded call is admitted and a call made earlier is rejected.
C7_Boundary ==
    [][CallStep =>
          LET s    == last'.key
              l    == ListOf(calls, s)
              kept == SelectSeq(l, LAMBDA t : clock - t < per_seconds) IN
          /\ IF last'.outcome = "rejected"
             THEN calls'[s] = kept
             ELSE SubSeq(calls'[s], 1, Len(calls'[s]) - 1) = kept
          /\ (max_calls = 1 /\ Len(l) = 1) =>
                /\ clock - l[1] = per_seconds => last'.outcome # "rejected"
                /\ clock - l[1] < per_seconds => last'.outcome = "rejected"]_vars

\* the second call exactly per_seconds = 2 ticks after the first, admitted
C7_Witness ==
    /\ Admitted /\ max_calls = 1 /\ per_seconds = 2
    /\ Len(last.pre) = 1 /\ last.now - last.pre[1] = 2

\* ---------------------------------------------------------------- C8
\* C8: with a session parameter, a call with key a leaves the list of every
\* other key as it was, and it is rejected only when its own list was full.
C8_SessionIsolation ==
    /\ [][(CallStep /\ session_arg.present) =>
             /\ DOMAIN calls' = DOMAIN calls \cup {last'.key}
             /\ \A k \in DOMAIN calls \ {last'.key} : calls'[k] = calls[k]]_vars
    /\ []((session_arg.present /\ Rejected) => Len(last.pre) = max_calls)

\* a call admitted while the window of another key is full
C8_Witness ==
    /\ Admitted /\ session_arg.present
    /\ \E k \in DOMAIN calls \ {last.key} :
          /\ Len(calls[k]) = max_calls
          /\ last.now - calls[k][1] < per_seconds

\* ---------------------------------------------------------------- C9
\* C9: without a session parameter every call, whatever its arguments, has
\* the key None; the table holds at most the key None, every admission is
\* counted there, and once max_calls recent calls are recorded every further
\* call is rejected.
C9_NoSessionSharing ==
    /\ []((phase = "ready" /\ session_name = None) =>
             /\ \A args \in ArgLists, kwargs \in KwargsSet :
                    SessionOf(session_arg, args, kwargs) = None
             /\ DOMAIN calls \subseteq {None}
             /\ Called => last.key = None
             /\ invocations = Len(ListOf(admits, None)))
    /\ [][(CallStep /\ session_name = None
              /\ Younger(ListOf(calls, None), clock, per_seconds) = max_calls)
             => last'.outcome = "rejected"]_vars

\* a limiter without session whose single list is full rejects a call
C9_Witness ==
    /\ session_name = None /\ Rejected /\ max_calls = 2
    /\ DOMAIN calls = {None} /\ f_params = <<"x", "name">>

\* ---------------------------------------------------------------- C10
ParamNames == {f_params[i] : i \in 1..Len(f_params)}

\* C10: construction fails exactly when a session name is given that is not
\* a parameter of the wrapped callable; a failed construction is never
\* followed by a call, and a constructed limiter never fails that way later.
C10_ConstructionValidation ==
    /\ [](phase = "failed" =>
             /\ session_name # None /\ session_name \notin ParamNames
             /\ ~Called /\ invocations = 0 /\ DOMAIN calls = {})
    /\ [](phase = "ready" =>
             /\ session_name = None \/ session_name \in ParamNames
             /\ session_arg.present <=> session_name # None
             /\ session_arg.present =>
                   /\ session_arg.name = session_name
                   /\ f_params[session_arg.index + 1] = session_name)
    /\ [][phase = "ready" => phase' = "ready"]_vars

\* the limiter of example.py: session 'chuj' for a callable with (name)
C10_Witness ==
    phase = "failed" /\ session_name = "chuj" /\ f_params = <<"name">>
\* ---------------------------------------------------------------- C11
\* C11: a call in which the wrapped callable raises was invoked and recorded
\* like any admitted call: its time is appended after the kept times and
\* stays in the list, and when that call filled the list the next call of
\* the session within per_seconds is rejected.
C11_FailedCallsCount ==
    /\ [][(CallStep /\ last'.outcome = "raised") =>
             LET s    == last'.key
                 kept == SelectSeq(ListOf(calls, s), LAMBDA t : clock - t < per_seconds) IN
             /\ invocations' = invocations + 1
             /\ calls'[s] = Append(kept, clock')]_vars
    /\ [](last.outcome = "raised" =>
             LET l == calls[last.key] IN
             /\ l # <<>>
             /\ l[Len(l)] >= last.now
             /\ l[Len(l)] = admits[last.key][Len(admits[last.key])])
    /\ [][(CallStep /\ last.outcome = "raised" /\ last'.key = last.key
              /\ Len(calls[last.key]) = max_calls
              /\ clock - calls[last.key][1] < per_seconds)
             => last'.outcome = "rejected"]_vars

\* a call in which f raised has filled the list of its session
C11_Witness ==
    /\ last.outcome = "raised" /\ max_calls = 2
    /\ Len(last.pre) = 1 /\ Len(calls[last.key]) = 2
\* ---------------------------------------------------------------- C12
\* C12: the time units are the second counts 1, 60, 3600, 86400, 604800,
\* 2592000 and 31536000, each the product of an earlier unit and one of the
\* multipliers 60, 60, 24, 7, 30 and 365; a window of per_seconds units is
\* that many times the second count.
C12_TimeUnits ==
    LET n == per_seconds IN
    /\ SECOND = 1 /\ MINUTE = 60 /\ HOUR = 3600 /\ DAY = 86400
    /\ WEEK = 604800 /\ MONTH = 2592000 /\ YEAR = 31536000
    /\ MINUTE = 60 * SECOND /\ HOUR = 60 * MINUTE /\ DAY = 24 * HOUR
    /\ WEEK = 7 * DAY /\ MONTH = 30 * DAY /\ YEAR = 365 * DAY
    /\ n * SECOND = n /\ n * MINUTE = 60 * n /\ n * HOUR = 3600 * n
    /\ n * DAY = 86400 * n /\ n * WEEK = 604800 * n
    /\ n * MONTH = 2592000 * n /\ n * YEAR = 31536000 * n

\* a limiter whose window is one SECOND
C12_Witness ==
    phase = "ready" /\ per_seconds = SECOND /\ Called
\* ---------------------------------------------------------------- C13
\* a list longer than max_calls
Exceeded(s) == Len(calls[s]) > max_calls

\* an admitted time that is still younger than per_seconds is missing
LostTime(s) ==
    Cardinality({i \in 1..Len(ListOf(admits, s)) : clock - admits[s][i] < per_seconds})
      > Cardinality({i \in 1..Len(calls[s]) : clock - calls[s][i] < per_seconds})

\* C13: with interleaved callers a list can grow beyond max_calls and an
\* appended time can be lost; both happen only after two callers of the
\* same session were inside lines 86-80 at the same time.
C13_RaceNeedsOverlap ==
    \A s \in DOMAIN calls : (Exceeded(s) \/ LostTime(s)) => raced

\* two callers were admitted side by side at max_calls = 1, then a third
\* time was appended to the list that a prune replaced
C13_Witness ==
    \E s \in DOMAIN calls :
        /\ max_calls = 1 /\ Len(calls[s]) = 2 /\ LostTime(s)
        /\ \A t \in Threads : threads[t].pc = "idle"
\* ---------------------------------------------------------------- C14
\* position (0-based) of the session parameter among the parameters
ParamIndex == CHOOSE i \in 0..(Len(f_params) - 1) : f_params[i + 1] = session_name

\* the time of the last admitted call of session s
LastTime(s) == admits[s][Len(admits[s])]

\* C14: with a session parameter the key is the keyword argument of that
\* name when present, else the positional argument at the position of the
\* parameter; a value passed positionally right after an admitted call that
\* passed the same value by keyword is counted in the same list.
C14_LookupOrder ==
    /\ []((phase = "ready" /\ session_name # None) =>
            \A args \in ArgLists, kwargs \in KwargsSet :
               /\ session_name \in DOMAIN kwargs =>
                      SessionOf(session_arg, args, kwargs) = kwargs[session_name]
               /\ (session_name \notin DOMAIN kwargs /\ Len(args) > ParamIndex) =>
                      SessionOf(session_arg, args, kwargs) = args[ParamIndex + 1])
    /\ []((Called /\ last.via \in {"kw", "pos"}) => last.key \in DOMAIN calls)
    /\ [][(CallStep /\ last.via = "kw" /\ last.outcome # "rejected"
              /\ last'.via = "pos" /\ last'.key = last.key
              /\ max_calls = 1 /\ clock - LastTime(last.key) < per_seconds)
             => last'.outcome = "rejected"]_vars

\* a value passed as second positional argument is rejected at max_calls = 1
C14_Witness ==
    /\ Rejected /\ last.via = "pos" /\ last.key = "a" /\ max_calls = 1
    /\ f_params = <<"x", "name">>

\* ---------------------------------------------------------------- C15
\* C15: with a session parameter, a call that passes the session argument
\* neither by keyword nor positionally gets the key None; it is counted in
\* the list of None and leaves the lists of the other keys as they were.
C15_OmittedArgument ==
    /\ []((phase = "ready" /\ session_name # None) =>
            \A args \in ArgLists, kwargs \in KwargsSet :
               (session_name \notin DOMAIN kwargs /\ Len(args) <= ParamIndex) =>
                   SessionOf(session_arg, args, kwargs) = None)
    /\ []((Called /\ last.via = "omitted") => (last.key = None /\ None \in DOMAIN calls))
    /\ [][(CallStep /\ last'.via = "omitted") =>
             /\ last'.outcome = "rejected" <=>
                    Younger(ListOf(calls, None), clock, per_seconds) = max_calls
             /\ \A k \in DOMAIN calls \ {None} : calls'[k] = calls[k]]_vars

\* a call without the session argument is rejected while key "a" has a list
C15_Witness ==
    /\ Rejected /\ last.via = "omitted" /\ session_arg.present
    /\ "a" \in DOMAIN calls /\ calls["a"] # calls[None]

\* ---------------------------------------------------------------- C19
\* C19: with a session parameter, None passed as the session argument and
\* an omitted session argument give the same key, and the calls of both
\* kinds together are limited to max_calls per window.
C19_NoneIsSentinel ==
    /\ []((phase = "ready" /\ session_name # None) =>
            \A args \in ArgLists, kwargs \in KwargsSet :
               LET explicit == IF session_name \in DOMAIN kwargs
                               THEN kwargs[session_name] = None
                               ELSE Len(args) > ParamIndex /\ args[ParamIndex + 1] = None
               IN  explicit =>
                     SessionOf(session_arg, args, kwargs) = SessionOf(session_arg, <<>>, <<>>))
    /\ []((Called /\ last.via = "omitted") => last.key = None)
    /\ [][(CallStep /\ last.via = "omitted" /\ last.outcome # "rejected"
              /\ last'.via \in {"kw", "pos"} /\ last'.key = None
              /\ max_calls = 1 /\ clock - LastTime(None) < per_seconds)
             => last'.outcome = "rejected"]_vars

\* None passed by keyword is rejected at max_calls = 1
C19_Witness ==
    /\ Rejected /\ last.via = "kw" /\ last.key = None /\ max_calls = 1
    /\ session_arg.present
\* ---------------------------------------------------------------- C16
\* C16: the table is empty after construction, the key of a call is in the
\* table after the call, admitted or rejected, and no step removes a key.
C16_KeysOnlyGrow ==
    /\ []((~Called) => DOMAIN calls = {})
    /\ [][phase = "new" => DOMAIN calls' = {}]_vars
    /\ [](Called => last.key \in DOMAIN calls)
    /\ [][CallStep => DOMAIN calls' = DOMAIN calls \cup {last'.key}]_vars
    /\ [][DOMAIN calls \subseteq DOMAIN calls']_vars

\* the prune of a call removed every time of its list, and the key of
\* another session whose times have all expired is still in the table
C16_Witness ==
    /\ Admitted /\ last.pre # <<>> /\ Len(calls[last.key]) = 1
    /\ \E k \in DOMAIN calls \ {last.key} :
          \A i \in 1..Len(calls[k]) : clock - calls[k][i] >= per_seconds

\* ---------------------------------------------------------------- C17
Sorted(list) == \A i, j \in 1..Len(list) : i <= j => list[i] <= list[j]

\* C17: every list is sorted in non-decreasing order, and the times that the
\* prune of a call removes are a prefix of the list.
C17_ChronologicalOrder ==
    /\ [](\A s \in DOMAIN calls : Sorted(calls[s]))
    /\ [][CallStep =>
             LET s == last'.key
                 l == ListOf(calls, s)
                 n == IF last'.outcome = "rejected"
                      THEN Len(calls'[s]) ELSE Len(calls'[s]) - 1
             IN  /\ n <= Len(l)
                 /\ SubSeq(calls'[s], 1, n) = SubSeq(l, Len(l) - n + 1, Len(l))]_vars

\* a list of two different times after a prune that removed a prefix
C17_Witness ==
    /\ Called /\ Len(calls[last.key]) = 2
    /\ calls[last.key][1] < calls[last.key][2]
    /\ Len(last.pre) = 2 /\ last.pre[1] < calls[last.key][1]

\* ---------------------------------------------------------------- C18
\* C18: a rejected call leaves the table as it was: its key was in the table
\* and its prune removed nothing, so the time at which the session is
\* admitted again does not depend on the rejected calls.
C18_RejectLeavesTable ==
    /\ [][(CallStep /\ last'.outcome = "rejected") =>
             /\ last'.key \in DOMAIN calls
             /\ calls' = calls]_vars
    /\ [](Rejected => (Len(last.pre) = max_calls /\ calls[last.key] = last.pre))

\* a rejected call one tick before the oldest of two times expires
C18_Witness ==
    /\ Rejected /\ max_calls = 2 /\ per_seconds = 2
    /\ last.now - last.pre[1] = 1 /\ clock > last.now

\* ---------------------------------------------------------------- C20
\* C20: max_calls is not validated and the test is an equality: with
\* max_calls = 0 every call is rejected and the wrapped callable is never
\* invoked; a call that finds more than max_calls times after its prune is
\* admitted and makes the list longer still.
C20_EqualityTest ==
    /\ [](max_calls = 0 => (invocations = 0 /\ (Called => Rejected)))
    /\ [](max_calls < 0 => ~Rejected)
    /\ [][CallStep =>
             LET s    == last'.key
                 kept == SelectSeq(ListOf(calls, s), LAMBDA t : clock - t < per_seconds)
             IN  Len(kept) > max_calls =>
                    /\ last'.outcome # "rejected"
                    /\ Len(calls'[s]) = Len(kept) + 1]_vars

\* three calls admitted in one window at max_calls = -1
C20_Witness ==
    /\ max_calls = -1 /\ Admitted
    /\ Len(last.pre) = 2 /\ Len(calls[last.key]) = 3
====
